---- MODULE Spec2Model ----
(***************************************************************************)
(* Model of the organizational-structure viewer: the hierarchy builder and *)
(* metrics engine of src/src/data/schema.ts (processData, lines 299-459).  *)
(* Strings that the code trims are sequences of one-character strings, so  *)
(* that trimming is computed rather than assumed.                          *)
(***************************************************************************)
EXTENDS Integers, Sequences, FiniteSets, TLC

VARIABLES keys, rawData, pc, result, work, stack, rootIdx, visits,
          store, wizard, camera, hover, chart, pointer, upload

\* The state of one parse.
parse == <<keys, rawData, pc, result, work, stack, rootIdx, visits>>

\* The state of the application around it: the store and the components.
view == <<store, wizard, camera, hover, chart, pointer, upload>>

vars == <<parse, view>>

\* ------------------------------------------------------------------ bounds
MaxRows == 3

\* Zoom button presses in a row, between two absolute camera settings.
MaxZoomSteps == 1

\* The drags of the tree view between two settings of its transform.
MaxDrags == 1

\* ------------------------------------------------------- JavaScript values
Undefined == <<"undefined">>
Null == <<"null">>

REQUIRED_COLS == <<"employee_id", "employee_name", "department_name">>

SOC_DEFAULT_LOW == 3
SOC_DEFAULT_HIGH == 8

\* Header sets of the ingested sheet (Object.keys of the first row).
FullKeys == {"employee_id", "employee_name", "department_name", "reports_to_id"}

KeySets ==
    { FullKeys,
      FullKeys \ {"employee_id"},
      FullKeys \ {"employee_name"},
      FullKeys \ {"reports_to_id"},
      {"employee_id", "department_name"},
      {"employee_id", "employee_name", "Reports To"} }

\* Raw cell texts of the employee_id and reports_to_id columns.
IdVals == { <<" ">>, <<"a">>, <<" ", "a">>, <<"b">>, <<"c">> }
RefVals == { <<>>, <<"a">>, <<"b", " ">> }

SeqElems(q) == {q[k] : k \in 1..Len(q)}

\* ------------------------------------------------------------------ numbers
\* A number of the views is the fraction n/d in lowest terms with d > 0;
\* d = 0 stands for Infinity (n = 1), -Infinity (n = -1) and NaN (n = 0).
\* The sign of a zero is not kept.
RECURSIVE GCD(_, _)
GCD(a, b) == IF b = 0 THEN a ELSE GCD(b, a % b)

Abs(a) == IF a < 0 THEN -a ELSE a

Sign(a) == IF a > 0 THEN 1 ELSE IF a < 0 THEN -1 ELSE 0

Frac(n, d) ==
    IF d = 0 THEN [n |-> Sign(n), d |-> 0]
    ELSE LET g == GCD(Abs(n), Abs(d))
         IN [n |-> Sign(d) * Sign(n) * (Abs(n) \div g), d |-> Abs(d) \div g]

Num(i) == Frac(i, 1)

NaN == Frac(0, 0)

Infinity == Frac(1, 0)

IsNaN(a) == a.d = 0 /\ a.n = 0

IsFinite(a) == a.d # 0

Neg(a) == [n |-> -a.n, d |-> a.d]

\* a + b
Add(a, b) ==
    IF a.d # 0 /\ b.d # 0 THEN Frac(a.n * b.d + b.n * a.d, a.d * b.d)
    ELSE IF IsNaN(a) \/ IsNaN(b) THEN NaN
    ELSE IF a.d = 0 /\ b.d = 0 THEN (IF a.n = b.n THEN a ELSE NaN)
    ELSE IF a.d = 0 THEN a
    ELSE b

\* a - b
Sub(a, b) == Add(a, Neg(b))

\* a * b
Mul(a, b) == Frac(a.n * b.n, a.d * b.d)

\* 1 / b
Recip(b) ==
    IF b.d = 0 THEN (IF b.n = 0 THEN NaN ELSE Num(0))
    ELSE IF b.n = 0 THEN Infinity
    ELSE Frac(b.d, b.n)

\* a / b
Div(a, b) == Mul(a, Recip(b))

\* a < b, false when either is NaN; finite numbers are compared by their
\* integer parts first, then by what is left.
Less(a, b) ==
    IF IsNaN(a) \/ IsNaN(b) THEN FALSE
    ELSE IF a.d # 0 /\ b.d # 0
    THEN LET fa == a.n \div a.d
             fb == b.n \div b.d
         IN IF fa # fb THEN fa < fb
            ELSE (a.n - fa * a.d) * b.d < (b.n - fb * b.d) * a.d
    ELSE IF a.d = 0 /\ b.d = 0 THEN a.n < b.n
    ELSE IF a.d = 0 THEN a.n < 0
    ELSE b.n > 0

\* a <= b, false when either is NaN
Leq(a, b) == ~IsNaN(a) /\ ~IsNaN(b) /\ ~Less(b, a)

\* Math.min(a, b)
MathMin(a, b) ==
    IF IsNaN(a) \/ IsNaN(b) THEN NaN ELSE IF Less(b, a) THEN b ELSE a

\* Math.max(a, b)
MathMax(a, b) ==
    IF IsNaN(a) \/ IsNaN(b) THEN NaN ELSE IF Less(a, b) THEN b ELSE a

\* ------------------------------------------------------------ String.trim
RECURSIVE TrimLeft(_)
TrimLeft(s) ==
    IF s = <<>> THEN s
    ELSE IF Head(s) = " " THEN TrimLeft(Tail(s)) ELSE s

RECURSIVE TrimRight(_)
TrimRight(s) ==
    IF s = <<>> THEN s
    ELSE IF s[Len(s)] = " " THEN TrimRight(SubSeq(s, 1, Len(s) - 1)) ELSE s

Trim(s) == TrimRight(TrimLeft(s))

\* row.employee_id?.toString().trim()
TrimOpt(v) == IF v = Undefined THEN Undefined ELSE Trim(v)

\* !id  (undefined and the empty string are falsy)
Falsy(v) == v = Undefined \/ v = Null \/ v = <<>>

\* row[col]: a column the row does not carry reads as undefined.
Field(row, col) == IF col \in DOMAIN row THEN row[col] ELSE Undefined

\* parseFloat on the fte texts of the model; the value is counted in halves
\* of a full-time equivalent, so that 0.5 is the integer 1.
parseFloat(s) ==
    CASE s = <<"0", ".", "5">> -> 1
      [] s = <<"1">> -> 2
      [] s = <<"2">> -> 4

\* parseFloat(row.fte || '1')
RowFte(row) ==
    IF Falsy(Field(row, "fte")) THEN parseFloat(<<"1">>)
    ELSE parseFloat(Field(row, "fte"))

\* row.reports_to_id?.toString().trim() || null
ManagerRef(v) == IF Falsy(TrimOpt(v)) THEN Null ELSE TrimOpt(v)

\* ------------------------------------------------------------- getSoCStatus
getSoCStatus(headcount, low, high) ==
    IF headcount < low THEN "low"
    ELSE IF headcount > high THEN "high"
    ELSE "ok"

\* ---------------------------------------------------------------- results
emptyStats ==
    [totalRows |-> 0, validRows |-> 0, orphanCount |-> 0, cycleCount |-> 0,
     roots |-> <<>>]

NoNodes == [i \in {} |-> 0]

FatalResult(errs) ==
    [root |-> Null, secondaryRoots |-> <<>>, flatNodes |-> NoNodes,
     order |-> <<>>, stats |-> emptyStats, errors |-> errs]

\* ------------------------------------------------- 1. column validation
MissingCols(ks) == LET Absent(col) == col \notin ks IN SelectSeq(REQUIRED_COLS, Absent)

ColumnErrors(ks) ==
    IF Len(MissingCols(ks)) > 0 /\ "reports_to_id" \notin ks /\ "Reports To" \notin ks
    THEN <<[msg |-> "Missing required columns", arg |-> MissingCols(ks)]>>
         \o (IF "reports_to_id" \notin ks
             THEN <<[msg |-> "Missing 'reports_to_id' column", arg |-> <<>>]>>
             ELSE <<>>)
    ELSE <<>>

\* --------------------------------------- 2. pre-process rows (first wins)
RowMapHas(rowMap, id) == \E k \in 1..Len(rowMap) : rowMap[k].id = id

\* Variant: a later row with the same id replaces the stored one.
RowMapPutLast(rowMap, id, row) ==
    IF ~RowMapHas(rowMap, id) THEN Append(rowMap, [id |-> id, row |-> row])
    ELSE [k \in 1..Len(rowMap) |->
            IF rowMap[k].id = id THEN [id |-> id, row |-> row] ELSE rowMap[k]]

RowMapPut(rowMap, id, row) ==
    IF ~RowMapHas(rowMap, id) THEN Append(rowMap, [id |-> id, row |-> row])
    ELSE rowMap

RECURSIVE BuildRowMap(_, _, _)
BuildRowMap(rows, i, rowMap) ==
    IF i > Len(rows) THEN rowMap
    ELSE LET id == TrimOpt(rows[i].employee_id)
         IN IF Falsy(id) THEN BuildRowMap(rows, i + 1, rowMap)
            ELSE BuildRowMap(rows, i + 1, RowMapPut(rowMap, id, rows[i]))

\* -------------------------------------------------------- 3. create nodes
NewNode(id, row) ==
    [id |-> id,
     data |-> [employee_id |-> id,
               reports_to_id |-> ManagerRef(row.reports_to_id),
               department_name |-> Field(row, "department_name"),
               fte |-> RowFte(row)],
     children |-> <<>>,
     parentId |-> ManagerRef(row.reports_to_id),
     depth |-> 0,
     total_descendants |-> 0,
     total_reports_cnt |-> 0,
     soc_headcount |-> 0,
     soc_fte |-> 0,
     soc_status |-> "ok"]

MapOrder(rowMap) == [k \in 1..Len(rowMap) |-> rowMap[k].id]

CreateNodes(rowMap) ==
    [id \in {rowMap[k].id : k \in 1..Len(rowMap)} |->
        LET k == CHOOSE j \in 1..Len(rowMap) : rowMap[j].id = id
        IN NewNode(id, rowMap[k].row)]

\* ---------------------------------------------------------- 4. build tree
\* Variant: a node whose manager is unknown is recorded but not kept as a root.
BuildTreeStepDropOrphan(bt, id) ==
    LET node == bt.nodes[id]
    IN IF Falsy(node.parentId)
       THEN [bt EXCEPT !.roots = Append(@, id)]
       ELSE IF node.parentId \in DOMAIN bt.nodes
            THEN [bt EXCEPT !.nodes[node.parentId].children = Append(@, id)]
            ELSE [bt EXCEPT !.orphanIds = @ \cup {id}]

\* Variant: a node attached to its manager is also kept as a root.
BuildTreeStepAlsoRoot(bt, id) ==
    LET node == bt.nodes[id]
    IN IF Falsy(node.parentId)
       THEN [bt EXCEPT !.roots = Append(@, id)]
       ELSE IF node.parentId \in DOMAIN bt.nodes
            THEN [bt EXCEPT !.nodes[node.parentId].children = Append(@, id),
                            !.roots = Append(@, id)]
            ELSE [bt EXCEPT !.orphanIds = @ \cup {id}, !.roots = Append(@, id)]

BuildTreeStep(bt, id) ==
    LET node == bt.nodes[id]
    IN IF Falsy(node.parentId)
       THEN [bt EXCEPT !.roots = Append(@, id)]
       ELSE IF node.parentId \in DOMAIN bt.nodes
            THEN [bt EXCEPT !.nodes[node.parentId].children = Append(@, id)]
            ELSE [bt EXCEPT !.orphanIds = @ \cup {id}, !.roots = Append(@, id)]

RECURSIVE BuildTree(_, _, _)
BuildTree(bt, order, i) ==
    IF i > Len(order) THEN bt
    ELSE BuildTree(BuildTreeStep(bt, order[i]), order, i + 1)

\* --------------------------------------------- 5. metrics (depth-first)
CycleError(id) == [msg |-> "Cycle detected involving user", arg |-> id]

\* The part of calculateMetrics that runs when a node is entered.
EnterNode(st, id, d) ==
    LET n == Len(st.nodes[id].children)
    IN [st EXCEPT !.visited = @ \cup {id},
                  !.nodes[id].depth = d,
                  !.nodes[id].soc_headcount = n,
                  !.nodes[id].soc_status =
                      IF n = 0 THEN "ok"
                      ELSE getSoCStatus(n, SOC_DEFAULT_LOW, SOC_DEFAULT_HIGH)]

\* The part of calculateMetrics that runs when a node is left.
LeaveNode(st, id, descendants) ==
    [st EXCEPT !.nodes[id].total_descendants = descendants,
               !.visited = @ \ {id},
               !.ret = descendants]

\* The early return of calculateMetrics on a node of the active path.
RejectNode(st, id) ==
    [st EXCEPT !.cycleDetected = TRUE,
               !.errors = Append(@, CycleError(id)),
               !.ret = 0]

RECURSIVE calculateMetrics(_, _, _)
RECURSIVE forEachChild(_, _, _, _, _)
calculateMetrics(st, id, d) ==
    IF id \in st.visited THEN RejectNode(st, id)
    ELSE LET s1 == EnterNode(st, id, d)
             s2 == forEachChild(s1, s1.nodes[id].children, 1, d, 0)
         IN LeaveNode(s2, id, s2.ret)

forEachChild(st, ch, i, d, descendants) ==
    IF i > Len(ch) THEN [st EXCEPT !.ret = descendants]
    ELSE LET s1 == calculateMetrics(st, ch[i], d + 1)
         IN forEachChild(s1, ch, i + 1, d, descendants + 1 + s1.ret)

RECURSIVE MetricsOnRoots(_, _, _)
MetricsOnRoots(st, roots, i) ==
    IF i > Len(roots) THEN st
    ELSE MetricsOnRoots(calculateMetrics(st, roots[i], 0), roots, i + 1)

\* ------------------------------------- 6. split main / secondary roots
TreeSize(nodes, id) == nodes[id].total_descendants + 1

\* Variant: the comparator with its operands exchanged (ascending sizes).
RootCompareAscending(nodes, a, b) == TreeSize(nodes, a) - TreeSize(nodes, b)

\* The comparator handed to roots.sort: negative when a goes before b.
RootCompare(nodes, a, b) == TreeSize(nodes, b) - TreeSize(nodes, a)

\* Array.prototype.sort is stable: x goes before the first element that
\* the comparator orders strictly after it.
SortInsert(nodes, sorted, x) ==
    LET later == {k \in 1..Len(sorted) : RootCompare(nodes, x, sorted[k]) < 0}
        pos == IF later = {} THEN Len(sorted) + 1
               ELSE CHOOSE k \in later : \A j \in later : k <= j
    IN SubSeq(sorted, 1, pos - 1) \o <<x>> \o SubSeq(sorted, pos, Len(sorted))

RECURSIVE SortRoots(_, _, _, _)
SortRoots(nodes, roots, i, sorted) ==
    IF i > Len(roots) THEN sorted
    ELSE SortRoots(nodes, roots, i + 1, SortInsert(nodes, sorted, roots[i]))

RECURSIVE SumSizes(_, _, _)
SumSizes(nodes, ids, i) ==
    IF i > Len(ids) THEN 0
    ELSE TreeSize(nodes, ids[i]) + SumSizes(nodes, ids, i + 1)

SplitRoots(st, order, roots, orphanIds, totalRows) ==
    LET sorted == SortRoots(st.nodes, roots, 1, <<>>)
        root == IF Len(sorted) > 0 THEN sorted[1] ELSE Null
        secondaryRoots == IF Len(sorted) > 0 THEN Tail(sorted) ELSE <<>>
    IN [root |-> root,
        secondaryRoots |-> secondaryRoots,
        flatNodes |-> st.nodes,
        order |-> order,
        stats |-> [totalRows |-> totalRows,
                   validRows |-> Cardinality(DOMAIN st.nodes),
                   orphanCount |-> Cardinality(orphanIds)
                                   + SumSizes(st.nodes, secondaryRoots, 1),
                   cycleCount |-> IF st.cycleDetected THEN 1 ELSE 0,
                   roots |-> sorted],
        errors |-> st.errors]

\* ------------------------------------------------------------ processData
\* Steps 2-4: the lookup table with its child lists, the root candidates
\* and the orphan ids.
BuildForest(rows) ==
    LET rowMap == BuildRowMap(rows, 1, <<>>)
    IN BuildTree([nodes |-> CreateNodes(rowMap), roots |-> <<>>, orphanIds |-> {}],
                 MapOrder(rowMap), 1)

MetricsStart(nodes) ==
    [nodes |-> nodes, visited |-> {}, cycleDetected |-> FALSE,
     errors |-> <<>>, ret |-> 0]

processData(ks, rows) ==
    IF Len(rows) = 0
    THEN FatalResult(<<[msg |-> "File is empty", arg |-> <<>>]>>)
    ELSE IF Len(ColumnErrors(ks)) > 0
    THEN FatalResult(ColumnErrors(ks))
    ELSE LET bt == BuildForest(rows)
             st == MetricsOnRoots(MetricsStart(bt.nodes), bt.roots, 1)
         IN SplitRoots(st, MapOrder(BuildRowMap(rows, 1, <<>>)), bt.roots,
                       bt.orphanIds, Len(rows))

\* ============================================================== the store
\* parseResult: null and validationStats: null.
NullResult == [isNull |-> TRUE]
NullStats == [isNull |-> TRUE]

\* rawFile: null of the store.
NullFile == [isNull |-> TRUE]

InitialStore ==
    [rawFile |-> NullFile,
     parseResult |-> NullResult, isLoading |-> FALSE, error |-> Null,
     isReadyToVisualize |-> FALSE, currentView |-> "chart",
     selectedLocation |-> Null, selectedDepartment |-> Null,
     selectedNodeId |-> Null,
     socThresholdLow |-> 3, socThresholdHigh |-> 8, maxVisibleDepth |-> 20]

setIsReadyToVisualize(st, ready) == [st EXCEPT !.isReadyToVisualize = ready]

setFile(st, file) == [st EXCEPT !.rawFile = file]

setLoading(st, loading) == [st EXCEPT !.isLoading = loading]

setError(st, error) == [st EXCEPT !.error = error, !.isLoading = FALSE]

setParseResult(st, r) ==
    [st EXCEPT !.parseResult = r, !.isLoading = FALSE, !.error = Null]

setView(st, v) == [st EXCEPT !.currentView = v]

setFilter(st, type, value) ==
    IF type = "location" THEN [st EXCEPT !.selectedLocation = value]
    ELSE IF type = "department" THEN [st EXCEPT !.selectedDepartment = value]
    ELSE st

setSelectedNodeId(st, id) == [st EXCEPT !.selectedNodeId = id]

\* parseResult?.root
HasRoot(pr) == "root" \in DOMAIN pr /\ pr.root # Null

\* Variant: applying new thresholds also re-classifies the stored nodes.
setSoCThresholdsRebuild(st, low, high) ==
    LET pr == st.parseResult
        reclassified ==
            [id \in DOMAIN pr.flatNodes |->
                [pr.flatNodes[id] EXCEPT !.soc_status =
                    getSoCStatus(pr.flatNodes[id].soc_headcount, low, high)]]
    IN [st EXCEPT !.socThresholdLow = low, !.socThresholdHigh = high,
                  !.parseResult =
                      IF HasRoot(pr) THEN [pr EXCEPT !.flatNodes = reclassified]
                      ELSE pr]

setSoCThresholds(st, low, high) ==
    [st EXCEPT !.socThresholdLow = low, !.socThresholdHigh = high]

setMaxVisibleDepth(st, depth) == [st EXCEPT !.maxVisibleDepth = depth]

\* ====================================================== the upload wizard
\* A file is readable or not; a readable one holds the rows of its sheet.
NoFile == [readable |-> FALSE, rows |-> <<>>]

InitialWizard ==
    [step |-> "UPLOAD", file |-> NoFile, timer |-> FALSE,
     selectedView |-> "chart", validationStats |-> NullStats]

\* ================================================ the camera of a viewport
\* d3.zoomIdentity, Transform.translate and Transform.scale of d3-zoom.
zoomIdentity == [x |-> Num(0), y |-> Num(0), k |-> Num(1)]

translate(t, x, y) ==
    [t EXCEPT !.x = Add(t.x, Mul(t.k, x)), !.y = Add(t.y, Mul(t.k, y))]

scale(t, k) == [t EXCEPT !.k = Mul(t.k, k)]

\* The props of useViewportCamera: its defaults and those of the circle view.
DefaultCamera ==
    [minZoom |-> Frac(1, 10), maxZoom |-> Num(8), initialTransform |-> zoomIdentity]

CircleCamera ==
    [minZoom |-> Frac(1, 100), maxZoom |-> Num(5),
     initialTransform |-> [x |-> Num(0), y |-> Num(0), k |-> Frac(4, 5)]]

\* offsetWidth and offsetHeight of the container.
Viewports == { <<800, 600>>, <<40, 600>> }

NoCall == [op |-> "mount", padding |-> 0,
           bounds |-> [x |-> Num(0), y |-> Num(0), width |-> Num(0), height |-> Num(0)]]

\* The hook after its effect ran: zoom.transform applies initialTransform.
MountCamera(props, vp) ==
    [W |-> vp[1], H |-> vp[2],
     minZoom |-> props.minZoom, maxZoom |-> props.maxZoom,
     transform |-> scale(translate(zoomIdentity, props.initialTransform.x,
                                   props.initialTransform.y),
                         props.initialTransform.k),
     zooms |-> 0, last |-> NoCall]

\* Math.max(minZoom, Math.min(maxZoom, k))
clampScale(cam, k) == MathMax(cam.minZoom, MathMin(cam.maxZoom, k))

\* zoom.scaleBy of d3-zoom about the centre of the viewport: the scale
\* extent is enforced, the default translate extent leaves the rest alone.
scaleBy(cam, f) ==
    LET t0 == cam.transform
        k1 == clampScale(cam, Mul(t0.k, f))
        p0x == Div(Num(cam.W), Num(2))
        p0y == Div(Num(cam.H), Num(2))
        p1x == Div(Sub(p0x, t0.x), t0.k)
        p1y == Div(Sub(p0y, t0.y), t0.k)
    IN [x |-> Sub(p0x, Mul(p1x, k1)), y |-> Sub(p0y, Mul(p1y, k1)), k |-> k1]

fitScale(cam, bounds, padding) ==
    MathMin(Div(Num(cam.W - padding * 2), bounds.width),
            Div(Num(cam.H - padding * 2), bounds.height))

\* Variant: the offset leaves the origin of the rectangle out.
fitOffsetNoOrigin(full, size, origin, k) ==
    Div(Sub(Num(full), Mul(size, k)), Num(2))

\* (full - size * clampedScale) / 2 - origin * clampedScale
fitOffset(full, size, origin, k) ==
    Sub(Div(Sub(Num(full), Mul(size, k)), Num(2)), Mul(origin, k))

\* The transform fitToBounds hands to zoom.transform.
fitTransform(cam, bounds, padding) ==
    LET k == clampScale(cam, fitScale(cam, bounds, padding))
    IN scale(translate(zoomIdentity,
                       fitOffset(cam.W, bounds.width, bounds.x, k),
                       fitOffset(cam.H, bounds.height, bounds.y, k)), k)

InitialCamera == MountCamera(DefaultCamera, <<800, 600>>)

NullHover == [isNull |-> TRUE]

\* ----------------------------------------------- the state of the tree view
NoDrag == [isNull |-> TRUE]

\* OrgChartView before its effects ran: useState({x: 0, y: 0, k: 1}) and
\* no drag; centred tells that the initial centring effect has run.
MountChart(vp) ==
    [W |-> vp[1], H |-> vp[2],
     transform |-> zoomIdentity,
     dragStart |-> NoDrag,
     centred |-> FALSE, zooms |-> 0, drags |-> 0]

InitialChart == MountChart(<<800, 600>>)

\* The pointer is not over the canvas.
NoPointer == [isNull |-> TRUE]

ViewIdle ==
    /\ store = InitialStore
    /\ wizard = InitialWizard
    /\ camera = InitialCamera
    /\ hover = NullHover
    /\ chart = InitialChart
    /\ pointer = NoPointer
    /\ upload = <<>>

\* =================================================== the parse as one step
Cell(ks, col, vals) == IF col \in ks THEN vals ELSE {Undefined}

NoWork == [nodes |-> NoNodes, visited |-> {}, cycleDetected |-> FALSE,
           errors |-> <<>>, ret |-> 0, roots |-> <<>>, orphanIds |-> {},
           order |-> <<>>]

Init ==
    /\ keys \in KeySets
    /\ rawData = <<>>
    /\ pc = "input"
    /\ result = FatalResult(<<>>)
    /\ work = NoWork
    /\ stack = <<>>
    /\ rootIdx = 0
    /\ visits = NoNodes
    /\ ViewIdle

\* The ingestion layer delivers one more row of the sheet.
AddRow ==
    /\ pc = "input"
    /\ Len(rawData) < MaxRows
    /\ \E id \in Cell(keys, "employee_id", IdVals),
          ref \in Cell(keys, "reports_to_id", RefVals) :
          rawData' = Append(rawData, [employee_id |-> id, reports_to_id |-> ref])
    /\ UNCHANGED <<keys, pc, result, work, stack, rootIdx, visits>>
    /\ UNCHANGED view

\* parseData hands the rows to processData.
ProcessData ==
    /\ pc = "input"
    /\ result' = processData(keys, rawData)
    /\ pc' = "done"
    /\ UNCHANGED <<keys, rawData, work, stack, rootIdx, visits>>
    /\ UNCHANGED view

Next == AddRow \/ ProcessData

Spec == Init /\ [][Next]_vars

\* ================================== the parse of a sheet with an fte column
\* Raw cell texts of the fte column: blank, a half, two.
FteVals == { <<>>, <<"0", ".", "5">>, <<"2">> }

FteRefVals == { <<>>, <<"a">>, <<"c">> }

InitFte ==
    /\ keys = FullKeys \cup {"fte"}
    /\ rawData = <<>>
    /\ pc = "input"
    /\ result = FatalResult(<<>>)
    /\ work = NoWork
    /\ stack = <<>>
    /\ rootIdx = 0
    /\ visits = NoNodes
    /\ ViewIdle

AddRowFte ==
    /\ pc = "input"
    /\ Len(rawData) < MaxRows
    /\ \E id \in {<<"a">>, <<"b">>}, ref \in FteRefVals, f \in FteVals :
          rawData' = Append(rawData,
                            [employee_id |-> id, reports_to_id |-> ref, fte |-> f])
    /\ UNCHANGED <<keys, pc, result, work, stack, rootIdx, visits>>
    /\ UNCHANGED view

NextFte == AddRowFte \/ ProcessData

SpecFte == InitFte /\ [][NextFte]_vars

\* ================================================= the application flow
\* The sheets a user uploads: a chain, a fan, a tree next to an orphan, a
\* sheet whose only id is blank, and an empty sheet.
SheetRow(id, ref, dept) ==
    [employee_id |-> id, reports_to_id |-> ref, department_name |-> dept]

ChainSheet ==
    << SheetRow(<<"a">>, <<>>, <<"S">>), SheetRow(<<"b">>, <<"a">>, <<"S">>),
       SheetRow(<<"c">>, <<"b">>, <<"T">>) >>

FanSheet ==
    << SheetRow(<<"a">>, <<>>, <<"S">>), SheetRow(<<"b">>, <<"a">>, <<"T">>),
       SheetRow(<<"c">>, <<"a">>, <<"S">>) >>

OrphanSheet ==
    << SheetRow(<<"a">>, <<>>, <<"S">>), SheetRow(<<"b">>, <<"a">>, <<"T">>),
       SheetRow(<<"c">>, <<"x">>, <<"T">>) >>

\* Two siblings of one department, the later one with a report of its own.
TieSheet ==
    << SheetRow(<<"a">>, <<>>, <<"S">>), SheetRow(<<"b">>, <<"a">>, <<"S">>),
       SheetRow(<<"c">>, <<"a">>, <<"S">>), SheetRow(<<"d">>, <<"c">>, <<"S">>) >>

BlankSheet == << SheetRow(<<" ">>, <<>>, <<"S">>) >>

Sheets == { ChainSheet, FanSheet, OrphanSheet, BlankSheet, << >> }

Files == {[readable |-> TRUE, rows |-> sh] : sh \in Sheets} \cup {NoFile}

\* parseData on the rows of an uploaded file.
parseData(file) == processData(FullKeys, file.rows)

\* Variant: every parse result counts as valid.
IsValidAlways(r) == TRUE

\* const isValid = result.root !== undefined && result.root !== null
IsValid(r) == r.root # Null

\* No parse is under way outside the handlers that run one.
ParseIdle ==
    /\ keys = FullKeys
    /\ rawData = <<>>
    /\ pc = "input"
    /\ result = FatalResult(<<>>)
    /\ work = NoWork
    /\ stack = <<>>
    /\ rootIdx = 0
    /\ visits = NoNodes

InitApp == ParseIdle /\ ViewIdle

\* UploadWizard.handleFile up to the start of the timer.
HandleFile ==
    /\ ~store.isReadyToVisualize
    /\ wizard.step = "UPLOAD"
    /\ \E f \in Files :
          wizard' = [wizard EXCEPT !.file = f, !.step = "VALIDATING",
                                   !.timer = TRUE]
    /\ UNCHANGED <<parse, store, camera, hover, chart, pointer, upload>>

\* What parseData gives for each of the files.
Parsed == [f \in Files |-> parseData(f)]

\* The timer callback of handleFile: parse, validate, store.
ValidateFile ==
    /\ ~store.isReadyToVisualize
    /\ wizard.timer
    /\ IF ~wizard.file.readable
       THEN /\ wizard' = [wizard EXCEPT !.timer = FALSE, !.step = "UPLOAD"]
            /\ UNCHANGED store
       ELSE LET r == Parsed[wizard.file]
                stats == [rowCount |-> r.stats.validRows,
                          isValid |-> IsValid(r), errors |-> r.errors]
            IN IF IsValid(r)
               THEN /\ store' = setParseResult(store, r)
                    /\ wizard' = [wizard EXCEPT !.timer = FALSE,
                                      !.validationStats =
                                          [stats EXCEPT !.isValid = TRUE],
                                      !.step = "CONFIGURE"]
               ELSE /\ wizard' = [wizard EXCEPT !.timer = FALSE,
                                      !.validationStats = stats]
                    /\ UNCHANGED store
    /\ UNCHANGED <<parse, camera, hover, chart, pointer, upload>>

\* The view buttons of the CONFIGURE step.
SetSelectedView ==
    /\ ~store.isReadyToVisualize
    /\ wizard.step = "CONFIGURE"
    /\ "isNull" \notin DOMAIN wizard.validationStats
    /\ \E v \in {"chart", "layers"} :
          wizard' = [wizard EXCEPT !.selectedView = v]
    /\ UNCHANGED <<parse, store, camera, hover, chart, pointer, upload>>

\* The Back button of the CONFIGURE step.
Back ==
    /\ ~store.isReadyToVisualize
    /\ wizard.step = "CONFIGURE"
    /\ "isNull" \notin DOMAIN wizard.validationStats
    /\ wizard' = [wizard EXCEPT !.step = "UPLOAD"]
    /\ UNCHANGED <<parse, store, camera, hover, chart, pointer, upload>>

\* UploadWizard.handleVisualize; App then unmounts the wizard.
HandleVisualize ==
    /\ ~store.isReadyToVisualize
    /\ wizard.step = "CONFIGURE"
    /\ "isNull" \notin DOMAIN wizard.validationStats
    /\ store' = setIsReadyToVisualize(
                    setView(store, IF wizard.selectedView = "layers"
                                   THEN "circle" ELSE "chart"), TRUE)
    /\ wizard' = InitialWizard
    /\ UNCHANGED <<parse, camera, hover, chart, pointer, upload>>

\* AppShell.handleReset; App mounts a fresh wizard.
HandleReset ==
    /\ store.isReadyToVisualize
    /\ store' = setIsReadyToVisualize(store, FALSE)
    /\ UNCHANGED <<parse, wizard, camera, hover, chart, pointer, upload>>

\* --------------------------------- the layout of the circle view (colours)
PaletteLength == 20

\* d3.hierarchy(root).each: the nodes under root, breadth first.
RECURSIVE eachNode(_, _, _)
eachNode(nodes, queue, out) ==
    IF queue = <<>> THEN out
    ELSE eachNode(nodes, Tail(queue) \o nodes[Head(queue)].children,
                  Append(out, Head(queue)))

Dept(nodes, id) == nodes[id].data.department_name

\* The head of the selected department that comes first, else the root.
EffectiveRoot(pr, dept) ==
    IF Falsy(dept) THEN pr.root
    ELSE LET IsHead(id) ==
                 /\ Dept(pr.flatNodes, id) = dept
                 /\ \/ id = pr.root
                    \/ Dept(pr.flatNodes, pr.flatNodes[id].parentId) # dept
             heads == SelectSeq(eachNode(pr.flatNodes, <<pr.root>>, <<>>), IsHead)
         IN IF Len(heads) > 0 THEN heads[1] ELSE pr.root

\* The order localeCompare gives the department names of the sheets.
DeptRank(d) == CASE d = <<"S">> -> 1 [] d = <<"T">> -> 2 [] OTHER -> 0

\* deptColorMap: the departments of the root's children, sorted, take the
\* palette entries in turn; a colour is its position in the palette.
ColorIndex(nodes, er, dept) ==
    Cardinality({DeptRank(Dept(nodes, c)) : c \in SeqElems(nodes[er].children)}
                    \cap 0..(DeptRank(dept) - 1)) % PaletteLength

RECURSIVE DepthOneAncestor(_, _, _)
DepthOneAncestor(nodes, er, id) ==
    IF nodes[id].parentId = er THEN id
    ELSE DepthOneAncestor(nodes, er, nodes[id].parentId)

\* root.each(d => d.data._displayColor = ...): the layout writes the colour
\* into the node objects of the stored result.
WriteDisplayColors(pr, dept) ==
    LET er == EffectiveRoot(pr, dept)
        below == SeqElems(eachNode(pr.flatNodes, <<er>>, <<>>)) \ {er}
        Colour(id) ==
            ColorIndex(pr.flatNodes, er,
                       Dept(pr.flatNodes, DepthOneAncestor(pr.flatNodes, er, id)))
    IN [pr EXCEPT !.flatNodes =
            [id \in DOMAIN pr.flatNodes |->
                IF id \in below
                THEN ("_displayColor" :> Colour(id)) @@ pr.flatNodes[id]
                ELSE pr.flatNodes[id]]]

\* The useMemo of LayeredCircleView that computes layoutData.
LayoutData ==
    /\ store.isReadyToVisualize
    /\ store.currentView = "circle"
    /\ HasRoot(store.parseResult)
    /\ store' = [store EXCEPT !.parseResult =
                      WriteDisplayColors(@, store.selectedDepartment)]
    /\ UNCHANGED <<parse, wizard, camera, hover, chart, pointer, upload>>

\* ------------------------------------- where a health status is displayed
\* The badge of the tree view, drawn on nodes that have children.
BadgeStatus(node) == node.soc_status

\* The ring of the circle view, drawn on nodes below the root.
RingStatus(node) == node.soc_status

\* The colour of the links that leave a node in the circle view.
LinkStatus(node, low, high) == getSoCStatus(node.soc_headcount, low, high)

\* --------------------------------------------- the controls of the shell
SetView ==
    /\ store.isReadyToVisualize
    /\ \E v \in {"chart", "circle"} : store' = setView(store, v)
    /\ UNCHANGED <<parse, wizard, camera, hover, chart, pointer, upload>>

SetFilter ==
    /\ store.isReadyToVisualize
    /\ \E type \in {"location", "department"} :
       \E value \in IF type = "department" THEN {Null, <<"S">>, <<"T">>}
                                            ELSE {Null} :
          store' = setFilter(store, type, value)
    /\ UNCHANGED <<parse, wizard, camera, hover, chart, pointer, upload>>

SetSoCThresholds ==
    /\ store.isReadyToVisualize
    /\ \E t \in {<<3, 8>>, <<1, 2>>, <<2, 5>>} :
          store' = setSoCThresholds(store, t[1], t[2])
    /\ UNCHANGED <<parse, wizard, camera, hover, chart, pointer, upload>>

SetMaxVisibleDepth ==
    /\ store.isReadyToVisualize
    /\ \E depth \in {1, 20} : store' = setMaxVisibleDepth(store, depth)
    /\ UNCHANGED <<parse, wizard, camera, hover, chart, pointer, upload>>

\* A click on a node of the canvas or on a search result, and the buttons
\* the details panel shows for the selected node: close, and View Manager
\* when the node has a parentId.
SetSelectedNodeId ==
    /\ store.isReadyToVisualize
    /\ HasRoot(store.parseResult)
    /\ LET nodes == store.parseResult.flatNodes
           sel == store.selectedNodeId
           shown == sel # Null /\ sel \in DOMAIN nodes
       IN \E id \in DOMAIN nodes
                    \cup (IF shown THEN {Null} ELSE {})
                    \cup (IF shown /\ ~Falsy(nodes[sel].parentId)
                          THEN {nodes[sel].parentId} ELSE {}) :
             store' = setSelectedNodeId(store, id)
    /\ UNCHANGED <<parse, wizard, camera, hover, chart, pointer, upload>>

NextApp ==
    \/ HandleFile \/ ValidateFile \/ SetSelectedView \/ Back
    \/ HandleVisualize \/ HandleReset
    \/ LayoutData \/ SetView \/ SetFilter \/ SetSoCThresholds
    \/ SetMaxVisibleDepth \/ SetSelectedNodeId

SpecApp == InitApp /\ [][NextApp]_vars

\* The wizard and the switch of App between wizard and shell, with the
\* 800 ms timer of handleFile bound to fire; the user's own steps are never
\* forced.
NextWizard ==
    \/ HandleFile \/ ValidateFile \/ SetSelectedView \/ Back
    \/ HandleVisualize \/ HandleReset

SpecAppLive == InitApp /\ [][NextWizard]_vars /\ WF_vars(ValidateFile)

\* ================================================ the FileUpload component
\* The files chosen in one sitting.
MaxUploads == 2

\* An error of the parse as the text it carries.
ErrorText(e) == <<e.msg>> \o e.arg

\* errors.join('\n')
RECURSIVE join(_)
join(errors) ==
    IF Len(errors) = 0 THEN <<>>
    ELSE IF Len(errors) = 1 THEN ErrorText(errors[1])
    ELSE ErrorText(errors[1]) \o <<"\n">> \o join(Tail(errors))

\* The store once the parse of a processFile call has settled: the catch
\* branch for a file that cannot be read, else the errors or the result.
Settle(st, f) ==
    IF ~f.readable THEN setError(st, <<"Failed to parse file">>)
    ELSE IF Len(Parsed[f].errors) > 0 THEN setError(st, join(Parsed[f].errors))
    ELSE setParseResult(st, Parsed[f])

\* processFile up to its await: nothing keeps a second call from starting
\* while the parse of the first is pending.
ProcessFile ==
    /\ Len(upload) < MaxUploads
    /\ \E f \in Files :
          /\ store' = setLoading(setFile(store, f), TRUE)
          /\ upload' = Append(upload, [file |-> f, done |-> FALSE])
    /\ UNCHANGED <<parse, wizard, camera, hover, chart, pointer>>

\* The rest of a processFile call, run when its parse resolves or rejects.
ParseSettles ==
    /\ \E i \in DOMAIN upload :
          /\ ~upload[i].done
          /\ store' = Settle(store, upload[i].file)
          /\ upload' = [upload EXCEPT ![i].done = TRUE]
    /\ UNCHANGED <<parse, wizard, camera, hover, chart, pointer>>

NextUpload == ProcessFile \/ ParseSettles

SpecUpload == InitApp /\ [][NextUpload]_vars

\* ====================================================== the circle view
SEC_ROOT == <<"SEC_ROOT">>

\* hierarchy.sort by department name; the sort is stable and the node
\* values it falls back on are all 0.
SortedChildren(nodes, id) ==
    LET OfRank(r) ==
            LET HasRank(c) == DeptRank(Dept(nodes, c)) = r
            IN SelectSeq(nodes[id].children, HasRank)
    IN OfRank(0) \o OfRank(1) \o OfRank(2)

\* d3.hierarchy(effectiveRootData).sort(...)
PrimaryHierarchy(pr, dept) ==
    [root |-> EffectiveRoot(pr, dept),
     nodes |-> [id \in DOMAIN pr.flatNodes |->
                   [children |-> SortedChildren(pr.flatNodes, id)]]]

\* d3.hierarchy(secondaryDummy): the secondary roots under SEC_ROOT.
SecondaryHierarchy(pr) ==
    [root |-> SEC_ROOT,
     nodes |-> (SEC_ROOT :> [children |-> pr.secondaryRoots])
               @@ [id \in DOMAIN pr.flatNodes |->
                      [children |-> pr.flatNodes[id].children]]]

descendants(h) == eachNode(h.nodes, <<h.root>>, <<>>)

ParentIn(h, id) ==
    CHOOSE p \in DOMAIN h.nodes : id \in SeqElems(h.nodes[p].children)

RECURSIVE DepthIn(_, _)
DepthIn(h, id) == IF id = h.root THEN 0 ELSE 1 + DepthIn(h, ParentIn(h, id))

HeightOf(h) ==
    LET ds == {DepthIn(h, n) : n \in SeqElems(descendants(h))}
    IN CHOOSE m \in ds : \A d \in ds : d <= m

maxNodesInLayer(h) ==
    LET Layer(d) == {n \in SeqElems(descendants(h)) : DepthIn(h, n) = d}
        cs == {Cardinality(Layer(d)) : d \in 0..HeightOf(h)}
    IN CHOOSE m \in cs : \A c \in cs : c <= m

\* The angle d3.tree with size [2 pi, 1] gives a node, as the unit vector
\* of project: the root and an only child sit at the angle pi of their
\* parent, two children at pi/2 and 3 pi/2. The sheets of the model have
\* no other shapes.
RECURSIVE DirIn(_, _)
DirIn(h, id) ==
    IF id = h.root THEN <<0, 1>>
    ELSE LET sibs == h.nodes[ParentIn(h, id)].children
         IN IF Len(sibs) = 1 THEN DirIn(h, ParentIn(h, id))
            ELSE IF sibs[1] = id THEN <<1, 0>> ELSE <<-1, 0>>

\* project(d.x, d.y * RADIUS), d.y being depth / height.
project(h, id, R) ==
    LET r == Mul(R, Frac(DepthIn(h, id),
                         IF HeightOf(h) = 0 THEN 1 ELSE HeightOf(h)))
    IN [x |-> Mul(Num(DirIn(h, id)[1]), r), y |-> Mul(Num(DirIn(h, id)[2]), r)]

\* neededRadius: maxNodesInLayer * (5 * 2 + 7.5) / (2 pi), pi taken as 22/7.
minSafeRadius(h) ==
    Div(Mul(Num(maxNodesInLayer(h)), Frac(35, 2)), Mul(Num(2), Frac(22, 7)))

getEffectiveRadius(cam, h) ==
    MathMax(Mul(Num(IF cam.W < cam.H THEN cam.W ELSE cam.H), Frac(9, 20)),
            minSafeRadius(h))

\* Where the draw loop puts a node of the primary (isSec = FALSE) or of
\* the secondary tree, in world coordinates.
DrawnAt(h, id, R, isSec) ==
    LET p == project(h, id, R)
    IN [x |-> Add(p.x, IF isSec THEN Mul(R, Frac(5, 2)) ELSE Num(0)), y |-> p.y]

\* ctx.translate(transform.x + CX, transform.y + CY); ctx.scale(k, k)
ToScreen(cam, w) ==
    [x |-> Add(Mul(w.x, cam.transform.k),
               Add(cam.transform.x, Div(Num(cam.W), Num(2)))),
     y |-> Add(Mul(w.y, cam.transform.k),
               Add(cam.transform.y, Div(Num(cam.H), Num(2))))]

\* The nodes the draw loop draws of a tree.
DrawnNodes(h, maxVisibleDepth) ==
    {n \in SeqElems(descendants(h)) :
        DepthIn(h, n) <= maxVisibleDepth /\ n # SEC_ROOT}

distSq(h, id, R, wx, wy) ==
    LET p == project(h, id, R)
    IN Add(Mul(Sub(wx, p.x), Sub(wx, p.x)), Mul(Sub(wy, p.y), Sub(wy, p.y)))

\* rootD3.descendants().forEach of handleMouseMove.
RECURSIVE closestNode(_, _, _, _, _, _, _, _)
closestNode(h, R, wx, wy, thSq, i, minDistSq, closest) ==
    IF i > Len(descendants(h)) THEN closest
    ELSE LET id == descendants(h)[i]
             d == distSq(h, id, R, wx, wy)
         IN IF Less(d, thSq) /\ Less(d, minDistSq)
            THEN closestNode(h, R, wx, wy, thSq, i + 1, d, id)
            ELSE closestNode(h, R, wx, wy, thSq, i + 1, minDistSq, closest)

\* The hit test of handleMouseMove at the canvas point m: the id of the
\* closest node of the primary tree within 20 screen pixels, or null.
hitTest(cam, h, m) ==
    LET t == cam.transform
        wx == Div(Sub(m.x, Add(t.x, Div(Num(cam.W), Num(2)))), t.k)
        wy == Div(Sub(m.y, Add(t.y, Div(Num(cam.H), Num(2)))), t.k)
        hitThreshold == Div(Num(20), t.k)
    IN closestNode(h, getEffectiveRadius(cam, h), wx, wy,
                   Mul(hitThreshold, hitThreshold), 1, Infinity, Null)

\* ------------------------------------------ the circle view and its camera
\* The store once the wizard has committed a sheet and opened a view.
StoreShowing(sheet, v) ==
    setIsReadyToVisualize(
        setView(setParseResult(InitialStore,
                               parseData([readable |-> TRUE, rows |-> sheet])),
                v),
        TRUE)

Primary == PrimaryHierarchy(store.parseResult, store.selectedDepartment)

Secondary == SecondaryHierarchy(store.parseResult)

Radius == getEffectiveRadius(camera, Primary)

InitCamera ==
    /\ ParseIdle
    /\ wizard = InitialWizard
    /\ \E sh \in {FanSheet, OrphanSheet, TieSheet} :
          store = StoreShowing(sh, "circle")
    /\ \E props \in {DefaultCamera, CircleCamera}, vp \in Viewports :
          camera = MountCamera(props, vp)
    /\ hover = NullHover
    /\ chart = InitialChart
    /\ pointer = NoPointer
    /\ upload = <<>>

\* zoom.transform: the transform becomes the target when the transition
\* ends; the zoom event copies it into the state of the hook.
SetTransform(t, op, bounds, padding) ==
    /\ camera' = [camera EXCEPT !.transform = t, !.zooms = 0,
                                !.last = [op |-> op, bounds |-> bounds,
                                          padding |-> padding]]
    /\ UNCHANGED <<parse, store, wizard, hover, chart, pointer, upload>>

CameraReset == SetTransform(zoomIdentity, "reset", NoCall.bounds, 0)

ZoomBy(f, op) ==
    /\ camera.zooms < MaxZoomSteps
    /\ camera' = [camera EXCEPT !.transform = scaleBy(camera, f),
                                !.zooms = @ + 1,
                                !.last = [NoCall EXCEPT !.op = op]]
    /\ UNCHANGED <<parse, store, wizard, hover, chart, pointer, upload>>

ZoomIn == ZoomBy(Frac(6, 5), "zoomIn")

ZoomOut == ZoomBy(Frac(4, 5), "zoomOut")

CameraTargets ==
    { [x |-> Num(0), y |-> Num(0), k |-> Num(1)],
      [x |-> Num(50), y |-> Num(-50), k |-> Frac(1, 2)],
      [x |-> Num(0), y |-> Num(0), k |-> Num(100)] }

SetCamera ==
    \E t \in CameraTargets :
        SetTransform(scale(translate(zoomIdentity, t.x, t.y), t.k),
                     "setCamera", NoCall.bounds, 0)

Rect(x, y, width, height) ==
    [x |-> x, y |-> y, width |-> width, height |-> height]

\* The rectangle the circle view fits: the disc of the rings.
Disc == Rect(Neg(Radius), Neg(Radius), Mul(Radius, Num(2)), Mul(Radius, Num(2)))

\* The rectangles handed to fitToBounds: the disc of the circle view, a
\* square around the origin, a point and a vertical segment.
FitRects ==
    { Disc,
      Rect(Num(-100), Num(-100), Num(200), Num(200)),
      Rect(Num(0), Num(0), Num(0), Num(0)),
      Rect(Num(10), Num(0), Num(0), Num(100)) }

FitToBounds ==
    \E bounds \in FitRects, padding \in {20, 50} :
        SetTransform(fitTransform(camera, bounds, padding),
                     "fitToBounds", bounds, padding)

AbsNum(a) == IF a.n < 0 THEN Neg(a) ELSE a

\* The nodes a hierarchy lays out, the dummy root of the secondary trees
\* left out.
LaidOut(h) == SeqElems(descendants(h)) \ {SEC_ROOT}

\* Where the pointer is put: the centre of every node of the layout, shifted
\* as the secondary trees are drawn, and a point 8 pixels right of the
\* centre of the root.
PointerSpots ==
    LET At(h, isSec) ==
            {ToScreen(camera, DrawnAt(h, n, Radius, isSec)) : n \in LaidOut(h)}
        c == ToScreen(camera, DrawnAt(Primary, Primary.root, Radius, FALSE))
    IN At(Primary, FALSE) \cup At(Secondary, TRUE)
       \cup {[c EXCEPT !.x = Add(@, Num(8))]}

\* handleMouseMove with the pointer at m.
MouseMove ==
    /\ \E m \in PointerSpots :
          LET hit == hitTest(camera, Primary, m)
              here == [id |-> hit, x |-> m.x, y |-> m.y]
          IN /\ pointer' = m
             /\ hover' =
                  IF hit # Null
                  THEN IF "isNull" \in DOMAIN hover \/ hover.id # hit THEN here
                       ELSE IF \/ Less(Num(5), AbsNum(Sub(hover.x, m.x)))
                               \/ Less(Num(5), AbsNum(Sub(hover.y, m.y)))
                            THEN here
                            ELSE hover
                  ELSE NullHover
    /\ UNCHANGED <<parse, store, wizard, camera, chart, upload>>

\* handleMouseDown of the circle view: the event is not read.
MouseDown ==
    /\ pointer # NoPointer
    /\ "isNull" \notin DOMAIN hover
    /\ store' = setSelectedNodeId(store, hover.id)
    /\ UNCHANGED <<parse, wizard, camera, hover, chart, pointer, upload>>

\* onMouseLeave of the canvas.
MouseLeave ==
    /\ pointer # NoPointer
    /\ pointer' = NoPointer
    /\ hover' = NullHover
    /\ UNCHANGED <<parse, store, wizard, camera, chart, upload>>

\* The initial fit of the circle view (padding 50) and its fit button
\* (the default padding, 20).
SceneFit ==
    \E padding \in {50, 20} :
        SetTransform(fitTransform(camera, Disc, padding),
                     "fitToBounds", Disc, padding)

InitScene ==
    /\ ParseIdle
    /\ wizard = InitialWizard
    /\ \E sd \in {<<FanSheet, 20>>, <<OrphanSheet, 20>>, <<ChainSheet, 1>>} :
          store = setMaxVisibleDepth(StoreShowing(sd[1], "circle"), sd[2])
    /\ camera = MountCamera(CircleCamera, <<800, 600>>)
    /\ hover = NullHover
    /\ chart = InitialChart
    /\ pointer = NoPointer
    /\ upload = <<>>

NextScene ==
    \/ SceneFit \/ ZoomIn \/ ZoomOut \/ CameraReset
    \/ MouseMove \/ MouseDown \/ MouseLeave

SpecScene == InitScene /\ [][NextScene]_vars

NextCamera ==
    \/ CameraReset \/ ZoomIn \/ ZoomOut \/ SetCamera \/ FitToBounds

SpecCamera == InitCamera /\ [][NextCamera]_vars

\* ------------------------------------------------------------ the tree view
NODE_WIDTH == 180

NODE_HEIGHT == 80

LEVEL_GAP == 120

MARGIN == 200

\* d3.hierarchy(rootNode): the store has no scopeType, so rootNode is the
\* primary root and the children keep the order of the parse.
TreeHierarchy(pr) ==
    [root |-> pr.root,
     nodes |-> [id \in DOMAIN pr.flatNodes |->
                   [children |-> pr.flatNodes[id].children]]]

Tree == TreeHierarchy(store.parseResult)

\* d3.tree().nodeSize([NODE_WIDTH + 40, LEVEL_GAP]) for nodes of at most two
\* children: the root at x = 0, an only child under its parent, two children
\* one node size apart around their parent.
RECURSIVE TreeX(_, _)
TreeX(h, id) ==
    IF id = h.root THEN 0
    ELSE LET p == ParentIn(h, id)
             sibs == h.nodes[p].children
         IN IF Len(sibs) = 1 THEN TreeX(h, p)
            ELSE IF sibs[1] = id THEN TreeX(h, p) - (NODE_WIDTH + 40) \div 2
            ELSE TreeX(h, p) + (NODE_WIDTH + 40) \div 2

TreeY(h, id) == DepthIn(h, id) * LEVEL_GAP

MinOf(S) == CHOOSE x \in S : \A y \in S : x <= y

MaxOf(S) == CHOOSE x \in S : \A y \in S : y <= x

\* treeData.bounds: the extent of the node centres, padded by 100.
treeBounds(h) ==
    LET xs == {TreeX(h, n) : n \in SeqElems(descendants(h))}
        ys == {TreeY(h, n) : n \in SeqElems(descendants(h))}
    IN [minX |-> MinOf(xs) - 100, maxX |-> MaxOf(xs) + 100,
        minY |-> MinOf(ys) - 100, maxY |-> MaxOf(ys) + 100]

constrainTransform(t, bounds, vw, vh) ==
    LET minTx == Add(Mul(Num(-bounds.maxX), t.k), Num(MARGIN))
        maxTx == Sub(Sub(Num(vw), Mul(Num(bounds.minX), t.k)), Num(MARGIN))
        minTy == Add(Mul(Num(-bounds.maxY), t.k), Num(MARGIN))
        maxTy == Sub(Sub(Num(vh), Mul(Num(bounds.minY), t.k)), Num(MARGIN))
    IN [x |-> MathMax(minTx, MathMin(maxTx, t.x)),
        y |-> MathMax(minTy, MathMin(maxTy, t.y)),
        k |-> t.k]

\* The hit test of handleMouseDown: the nodes from last to first, the first
\* whose card holds the world point.
RECURSIVE rectHit(_, _, _, _)
rectHit(h, wx, wy, i) ==
    IF i = 0 THEN Null
    ELSE LET d == descendants(h)[i]
         IN IF /\ Leq(Num(TreeX(h, d) - NODE_WIDTH \div 2), wx)
               /\ Leq(wx, Num(TreeX(h, d) + NODE_WIDTH \div 2))
               /\ Leq(Num(TreeY(h, d) - NODE_HEIGHT \div 2), wy)
               /\ Leq(wy, Num(TreeY(h, d) + NODE_HEIGHT \div 2))
            THEN d
            ELSE rectHit(h, wx, wy, i - 1)

treeHit(t, h, m) ==
    rectHit(h, Div(Sub(m.x, t.x), t.k), Div(Sub(m.y, t.y), t.k),
            Len(descendants(h)))

\* ctx.translate(transform.x, transform.y); ctx.scale(k, k) of the tree view.
ChartScreen(t, h, id) ==
    [x |-> Add(Mul(Num(TreeX(h, id)), t.k), t.x),
     y |-> Add(Mul(Num(TreeY(h, id)), t.k), t.y)]

ChartViewports == {<<800, 600>>, <<800, 300>>}

\* A sheet of one person.
SoloSheet == << SheetRow(<<"a">>, <<>>, <<"S">>) >>

InitChart ==
    /\ ParseIdle
    /\ wizard = InitialWizard
    /\ \E sh \in {SoloSheet, ChainSheet, FanSheet, OrphanSheet} :
          store = StoreShowing(sh, "chart")
    /\ camera = InitialCamera
    /\ hover = NullHover
    /\ \E vp \in ChartViewports : chart = MountChart(vp)
    /\ pointer = NoPointer
    /\ upload = <<>>

\* setTransform of the tree view with a transform given outright.
SetChart(t) ==
    [chart EXCEPT !.transform = t, !.zooms = 0, !.drags = 0, !.centred = TRUE]

\* The initial centring effect, run once after mount.
InitialCentre ==
    /\ ~chart.centred
    /\ chart' = IF chart.transform.x = Num(0)
                THEN SetChart([x |-> Frac(chart.W, 2), y |-> Num(100),
                               k |-> Frac(4, 5)])
                ELSE [chart EXCEPT !.centred = TRUE]
    /\ UNCHANGED <<parse, store, wizard, camera, hover, pointer, upload>>

\* updateTransform: the updater, then constrainTransform. The buttons lie
\* outside the canvas, and leaving the canvas ends a drag.
UpdateTransform(k) ==
    /\ chart.centred
    /\ chart.dragStart = NoDrag
    /\ chart.zooms < MaxZoomSteps
    /\ chart' = [chart EXCEPT
                    !.transform = constrainTransform([@ EXCEPT !.k = k],
                                      treeBounds(Tree), chart.W, chart.H),
                    !.zooms = @ + 1]
    /\ UNCHANGED <<parse, store, wizard, camera, hover, pointer, upload>>

ChartZoomIn ==
    UpdateTransform(MathMin(Mul(chart.transform.k, Frac(6, 5)), Num(5)))

ChartZoomOut ==
    UpdateTransform(MathMax(Div(chart.transform.k, Frac(6, 5)), Frac(1, 5)))

ResetView ==
    /\ chart.centred
    /\ chart.dragStart = NoDrag
    /\ chart' = SetChart([x |-> Frac(chart.W, 2), y |-> Num(100), k |-> Num(1)])
    /\ UNCHANGED <<parse, store, wizard, camera, hover, pointer, upload>>

\* The transform of the focus effect for a selected node.
FocusOn(id) ==
    [x |-> Add(Num(-TreeX(Tree, id)), Frac(chart.W, 2)),
     y |-> Sub(Add(Num(-TreeY(Tree, id)), Frac(chart.H, 2)), Num(100)),
     k |-> Num(1)]

\* The corners of the canvas.
Corners ==
    { [x |-> Num(0), y |-> Num(0)], [x |-> Num(chart.W), y |-> Num(chart.H)] }

\* handleMouseDown with the pointer on the centre of a node or on a corner:
\* a hit selects the node, and a changed selection runs the focus effect;
\* a miss starts a drag.
ChartMouseDown ==
    /\ chart.centred
    /\ chart.dragStart = NoDrag
    /\ \E m \in Corners \cup {ChartScreen(chart.transform, Tree, n) :
                                 n \in SeqElems(descendants(Tree))} :
          LET hit == treeHit(chart.transform, Tree, m)
          IN /\ pointer' = m
             /\ IF hit # Null
                THEN /\ store' = setSelectedNodeId(store, hit)
                     /\ chart' = IF hit # store.selectedNodeId
                                 THEN SetChart(FocusOn(hit))
                                 ELSE chart
                ELSE /\ chart.drags < MaxDrags
                     /\ chart' = [chart EXCEPT
                           !.dragStart = [x |-> Sub(m.x, chart.transform.x),
                                          y |-> Sub(m.y, chart.transform.y)],
                           !.drags = @ + 1]
                     /\ UNCHANGED store
    /\ UNCHANGED <<parse, wizard, camera, hover, upload>>

\* handleMouseMove of the tree view while a drag is on.
ChartMouseMove ==
    /\ chart.dragStart # NoDrag
    /\ \E m \in Corners :
          /\ pointer' = m
          /\ chart' = [chart EXCEPT !.transform =
                         constrainTransform(
                             [@ EXCEPT !.x = Sub(m.x, chart.dragStart.x),
                                       !.y = Sub(m.y, chart.dragStart.y)],
                             treeBounds(Tree), chart.W, chart.H)]
    /\ UNCHANGED <<parse, store, wizard, camera, hover, upload>>

ChartMouseUp ==
    /\ chart.dragStart # NoDrag
    /\ chart' = [chart EXCEPT !.dragStart = NoDrag]
    /\ UNCHANGED <<parse, store, wizard, camera, hover, pointer, upload>>

NextChart ==
    \/ InitialCentre \/ ChartZoomIn \/ ChartZoomOut \/ ResetView
    \/ ChartMouseDown \/ ChartMouseMove \/ ChartMouseUp

SpecChart == InitChart /\ [][NextChart]_vars

\* ============================== the parse with the traversal step by step
\* Rows whose identifiers need no trimming: the traversal is the subject.
DfsIdVals == {v \in IdVals : Trim(v) = v}

\* Every identifier can be named as a manager, so that loops of three form.
DfsRefVals == {<<>>} \cup DfsIdVals

DfsRows == [employee_id : DfsIdVals, reports_to_id : DfsRefVals]

\* A single start: the rows arrive one by one as in the other specification.
InitDFS ==
    /\ keys = FullKeys
    /\ rawData = <<>>
    /\ pc = "input"
    /\ result = FatalResult(<<>>)
    /\ work = NoWork
    /\ stack = <<>>
    /\ rootIdx = 0
    /\ visits = NoNodes
    /\ ViewIdle

AddRowDFS ==
    /\ pc = "input"
    /\ Len(rawData) < MaxRows
    /\ \E row \in DfsRows : rawData' = Append(rawData, row)
    /\ UNCHANGED <<keys, pc, result, work, stack, rootIdx, visits>>
    /\ UNCHANGED view

Frame(id, d) == [id |-> id, d |-> d, i |-> 1, descendants |-> 0]

Top == stack[Len(stack)]

Pop(s) == SubSeq(s, 1, Len(s) - 1)

\* Steps 1-4 of processData: validation, first-wins rows, nodes, tree.
BeginParse ==
    /\ pc = "input"
    /\ IF Len(rawData) = 0 \/ Len(ColumnErrors(keys)) > 0
       THEN /\ result' = processData(keys, rawData)
            /\ pc' = "done"
            /\ UNCHANGED <<work, rootIdx, visits>>
       ELSE LET bt == BuildForest(rawData)
            IN /\ work' = [MetricsStart(bt.nodes) EXCEPT !.ret = 0]
                              @@ [roots |-> bt.roots, orphanIds |-> bt.orphanIds,
                                  order |-> MapOrder(BuildRowMap(rawData, 1, <<>>))]
               /\ rootIdx' = 1
               /\ visits' = [id \in DOMAIN bt.nodes |-> 0]
               /\ pc' = "metrics"
               /\ UNCHANGED result
    /\ UNCHANGED <<keys, rawData, stack>>
    /\ UNCHANGED view

\* roots.forEach(r => calculateMetrics(r, 0)): the call on the next root.
CallRoot ==
    /\ pc = "metrics"
    /\ stack = <<>>
    /\ rootIdx <= Len(work.roots)
    /\ LET id == work.roots[rootIdx]
       IN IF id \in work.visited
          THEN /\ work' = RejectNode(work, id)
               /\ rootIdx' = rootIdx + 1
               /\ UNCHANGED <<stack, visits>>
          ELSE /\ work' = EnterNode(work, id, 0)
               /\ stack' = <<Frame(id, 0)>>
               /\ visits' = [visits EXCEPT ![id] = @ + 1]
               /\ UNCHANGED rootIdx
    /\ UNCHANGED <<keys, rawData, pc, result>>
    /\ UNCHANGED view

\* node.children.forEach(child => ... calculateMetrics(child, d + 1)).
CallChild ==
    /\ pc = "metrics"
    /\ stack # <<>>
    /\ Top.i <= Len(work.nodes[Top.id].children)
    /\ LET id == work.nodes[Top.id].children[Top.i]
       IN IF id \in work.visited
          THEN /\ work' = RejectNode(work, id)
               /\ stack' = [stack EXCEPT ![Len(stack)].i = @ + 1,
                                         ![Len(stack)].descendants = @ + 1 + 0]
               /\ UNCHANGED visits
          ELSE /\ work' = EnterNode(work, id, Top.d + 1)
               /\ stack' = Append(stack, Frame(id, Top.d + 1))
               /\ visits' = [visits EXCEPT ![id] = @ + 1]
    /\ UNCHANGED <<keys, rawData, pc, result, rootIdx>>
    /\ UNCHANGED view

\* The end of calculateMetrics: store the count, leave the path, return.
ReturnNode ==
    /\ pc = "metrics"
    /\ stack # <<>>
    /\ Top.i > Len(work.nodes[Top.id].children)
    /\ work' = LeaveNode(work, Top.id, Top.descendants)
    /\ IF Len(stack) > 1
       THEN /\ stack' = [Pop(stack) EXCEPT
                            ![Len(stack) - 1].i = @ + 1,
                            ![Len(stack) - 1].descendants = @ + 1 + Top.descendants]
            /\ UNCHANGED rootIdx
       ELSE /\ stack' = <<>>
            /\ rootIdx' = rootIdx + 1
    /\ UNCHANGED <<keys, rawData, pc, result, visits>>
    /\ UNCHANGED view

\* Step 6 of processData and the return of the result.
FinishParse ==
    /\ pc = "metrics"
    /\ stack = <<>>
    /\ rootIdx > Len(work.roots)
    /\ result' = SplitRoots(work, work.order, work.roots, work.orphanIds,
                            Len(rawData))
    /\ pc' = "done"
    /\ UNCHANGED <<keys, rawData, work, stack, rootIdx, visits>>
    /\ UNCHANGED view

TraversalStep == CallRoot \/ CallChild \/ ReturnNode \/ FinishParse

NextDFS == AddRowDFS \/ BeginParse \/ TraversalStep

\* The traversal is synchronous code: once started it runs to its return.
SpecDFS == InitDFS /\ [][NextDFS]_vars /\ WF_vars(TraversalStep)

\* The stepwise traversal computes what the recursive definition computes.
StepwiseAgrees == pc = "done" => result = processData(keys, rawData)

\* ====================================================== reading the input
Done == pc = "done"

\* The input passed the empty-file and column checks of processData.
Accepted == Len(rawData) > 0 /\ Len(ColumnErrors(keys)) = 0

RowId(i) == TrimOpt(rawData[i].employee_id)

ValidIds == {RowId(i) : i \in 1..Len(rawData)} \ {Undefined, Null, <<>>}

FirstRowOf(id) ==
    rawData[CHOOSE i \in 1..Len(rawData) :
                /\ RowId(i) = id
                /\ \A j \in 1..Len(rawData) : RowId(j) = id => i <= j]

\* The manager a valid identifier declares (its first row's reference).
ManagerOf(id) == ManagerRef(FirstRowOf(id).reports_to_id)

RECURSIVE ManagerAt(_, _)
ManagerAt(id, k) ==
    IF k = 0 THEN id
    ELSE IF id \notin ValidIds THEN Null
    ELSE ManagerAt(ManagerOf(id), k - 1)

\* The manager references starting at id lead back to id.
OnLoop(id) == \E k \in 1..Cardinality(ValidIds) : ManagerAt(id, k) = id

HasLoop == \E id \in ValidIds : OnLoop(id)

Orphans == {id \in ValidIds : ManagerOf(id) # Null /\ ManagerOf(id) \notin ValidIds}

RootCandidates == {id \in ValidIds : ManagerOf(id) = Null} \cup Orphans

AllRoots ==
    IF result.root = Null THEN <<>> ELSE <<result.root>> \o result.secondaryRoots

ResultSize(id) == 1 + result.flatNodes[id].total_descendants

RECURSIVE SumChildren(_, _)
SumChildren(ch, i) ==
    IF i > Len(ch) THEN 0
    ELSE ResultSize(ch[i]) + SumChildren(ch, i + 1)

RECURSIVE ChildClosure(_, _)
ChildClosure(S, k) ==
    IF k = 0 THEN S
    ELSE ChildClosure(S \cup UNION {SeqElems(result.flatNodes[n].children) : n \in S},
                      k - 1)

\* The nodes reached from id by following one or more children links.
Below(id) ==
    ChildClosure(SeqElems(result.flatNodes[id].children),
                 Cardinality(DOMAIN result.flatNodes))

\* ================================================================= claims
\* C1: processData returns a non-null root or a non-empty errors list; it
\* never returns root = null together with errors = [].
C1_ForestOrErrors ==
    Done => (result.root # Null \/ Len(result.errors) > 0)

\* C2: rows lacking any one of employee_id, employee_name, department_name
\* or reports_to_id make processData fatal: root = null, an empty flatNodes
\* table and a non-empty errors list.
C2_MissingColumnIsFatal ==
    (Done /\ Len(rawData) > 0 /\ FullKeys \ keys # {})
        => /\ result.root = Null
           /\ DOMAIN result.flatNodes = {}
           /\ Len(result.errors) > 0

\* C3: of the rows sharing a trimmed employee_id only the first is used:
\* the node under that id carries the first row's fields, duplicates and
\* blank ids create no node, validRows is the number of distinct non-blank
\* trimmed ids and totalRows the number of input rows.
C3_FirstRowWins ==
    (Done /\ Accepted)
        => /\ DOMAIN result.flatNodes = ValidIds
           /\ \A id \in ValidIds :
                 /\ result.flatNodes[id].id = id
                 /\ result.flatNodes[id].data.employee_id = id
                 /\ result.flatNodes[id].data.reports_to_id = ManagerOf(id)
                 /\ result.flatNodes[id].parentId = ManagerOf(id)
           /\ result.stats.validRows = Cardinality(ValidIds)
           /\ result.stats.totalRows = Len(rawData)

\* C3 witness: two rows share a trimmed id written differently and name
\* different managers, a third row has a blank id, and the parse is done.
C3_Witness ==
    /\ Done /\ Accepted
    /\ \E i, j \in 1..Len(rawData) :
          /\ i < j
          /\ RowId(i) = RowId(j)
          /\ RowId(i) \in ValidIds
          /\ rawData[i].employee_id # rawData[j].employee_id
          /\ ManagerRef(rawData[i].reports_to_id) # ManagerRef(rawData[j].reports_to_id)
          /\ result.flatNodes[RowId(i)].parentId = ManagerRef(rawData[i].reports_to_id)
    /\ \E k \in 1..Len(rawData) : Falsy(RowId(k))
    /\ result.stats.validRows < result.stats.totalRows

\* C4: for every accepted input the sum of (1 + total_descendants) over
\* the primary root and the secondary roots equals stats.validRows.
C4_TreesCoverValidRows ==
    (Done /\ Accepted)
        => SumChildren(AllRoots, 1) = result.stats.validRows

\* C5: after processData returns a Forest, every node of flatNodes has
\* total_descendants equal to the sum over its children of
\* (1 + child.total_descendants).
C5_DescendantsAreSummed ==
    (Done /\ result.root # Null)
        => \A id \in DOMAIN result.flatNodes :
              result.flatNodes[id].total_descendants
                  = SumChildren(result.flatNodes[id].children, 1)

\* C6: when the manager references of the input form a loop, processData
\* sets stats.cycleCount = 1 and reports at least one cycle warning.
C6_LoopIsFlagged ==
    (Done /\ Accepted /\ HasLoop)
        => /\ result.stats.cycleCount = 1
           /\ \E k \in 1..Len(result.errors) :
                 result.errors[k].msg = "Cycle detected involving user"

C8_OrphanIsSecondaryRoot ==
    (Done /\ Accepted)
        => /\ \A id \in Orphans :
                 /\ id \in DOMAIN result.flatNodes
                 /\ id \in SeqElems(result.secondaryRoots)
           /\ result.stats.orphanCount >= Cardinality(Orphans)

\* C8 amended: every first-occurrence row with a non-blank id whose
\* non-blank reports_to_id matches no id of the lookup table is kept, is a
\* root of the result (the primary root or one of secondaryRoots), is in no
\* children list, and is counted in stats.orphanCount.
C8_OrphanIsRoot ==
    (Done /\ Accepted)
        => /\ \A id \in Orphans :
                 /\ id \in DOMAIN result.flatNodes
                 /\ id \in SeqElems(AllRoots)
                 /\ \A p \in DOMAIN result.flatNodes :
                       id \notin SeqElems(result.flatNodes[p].children)
           /\ result.stats.orphanCount >= Cardinality(Orphans)

\* C8 witness: two orphans, one returned as the primary root and one in
\* secondaryRoots.
C8_Witness ==
    /\ Done /\ Accepted
    /\ result.root \in Orphans
    /\ \E id \in Orphans : id \in SeqElems(result.secondaryRoots)

\* C9: in the committed structure every non-root node is in the children
\* list of exactly one node, no children list holds a node twice, and the
\* children links from a node never lead back to it.
C9_CommittedTree ==
    (Done /\ Accepted)
        => /\ \A id \in DOMAIN result.flatNodes \ SeqElems(AllRoots) :
                 Cardinality({p \in DOMAIN result.flatNodes :
                     id \in SeqElems(result.flatNodes[p].children)}) = 1
           /\ \A p \in DOMAIN result.flatNodes :
                 LET ch == result.flatNodes[p].children
                 IN \A i, j \in 1..Len(ch) : ch[i] = ch[j] => i = j
           /\ \A id \in DOMAIN result.flatNodes : id \notin Below(id)

Reachable == SeqElems(AllRoots) \cup UNION {Below(r) : r \in SeqElems(AllRoots)}

RECURSIVE SumFte(_, _)
SumFte(ch, i) ==
    IF i > Len(ch) THEN 0
    ELSE result.flatNodes[ch[i]].data.fte + SumFte(ch, i + 1)

\* C11: after processData every node reachable from a root has
\* soc_headcount equal to the number of its direct children and soc_fte
\* equal to the sum of its direct children's fte values, a missing fte
\* counting as 1.
C11_SpanOfControl ==
    (Done /\ Accepted)
        => \A id \in Reachable :
              /\ result.flatNodes[id].soc_headcount
                    = Len(result.flatNodes[id].children)
              /\ result.flatNodes[id].soc_fte
                    = SumFte(result.flatNodes[id].children, 1)

\* ------------------------------------------------ reading the application
Ready == store.isReadyToVisualize

StoredNodes == store.parseResult.flatNodes

\* The nodes of the stored primary tree.
PrimaryTree ==
    SeqElems(eachNode(StoredNodes, <<store.parseResult.root>>, <<>>))

\* The classification of a headcount against a pair of thresholds.
ExpectedStatus(hc, low, high) ==
    IF hc = 0 THEN "ok"
    ELSE IF hc < low THEN "low"
    ELSE IF hc > high THEN "high"
    ELSE "ok"

ActiveStatus(id) ==
    ExpectedStatus(StoredNodes[id].soc_headcount,
                   store.socThresholdLow, store.socThresholdHigh)

\* C12: whenever a view displays the health classification of a node, at
\* parse time and after any setSoCThresholds, what it displays is the
\* classification of the stored headcount against the active thresholds.
C12_StatusFollowsThresholds ==
    (Ready /\ HasRoot(store.parseResult))
        => \A id \in PrimaryTree :
              LET n == StoredNodes[id]
              IN /\ (store.currentView = "chart" /\ Len(n.children) > 0)
                        => BadgeStatus(n) = ActiveStatus(id)
                 /\ (store.currentView = "circle" /\ id # store.parseResult.root)
                        => RingStatus(n) = ActiveStatus(id)
                 /\ (store.currentView = "circle" /\ Len(n.children) > 0)
                        => LinkStatus(n, store.socThresholdLow,
                                      store.socThresholdHigh) = ActiveStatus(id)

\* The committed structure: roots, children lists, parents, span counts.
Structure(pr) ==
    IF "flatNodes" \in DOMAIN pr
    THEN [root |-> pr.root, secondaryRoots |-> pr.secondaryRoots,
          nodes |-> [id \in DOMAIN pr.flatNodes |->
                        [children |-> pr.flatNodes[id].children,
                         parentId |-> pr.flatNodes[id].parentId,
                         soc_headcount |-> pr.flatNodes[id].soc_headcount,
                         soc_fte |-> pr.flatNodes[id].soc_fte]]]
    ELSE NullResult

\* The step in which the wizard commits a parse result.
CommitStep == wizard.timer /\ ~wizard'.timer

\* C13: once a Forest is committed no threshold, filter, depth, view or
\* selection change and no layout recomputation changes a node's children,
\* parentId, soc_headcount or soc_fte; a threshold change changes only the
\* two thresholds of the store; only a commit replaces the Forest.
C13_ForestIsFrozen ==
    [][ /\ ~CommitStep
            => Structure(store'.parseResult) = Structure(store.parseResult)
        /\ (\/ store'.socThresholdLow # store.socThresholdLow
            \/ store'.socThresholdHigh # store.socThresholdHigh)
            => [store' EXCEPT !.socThresholdLow = store.socThresholdLow,
                              !.socThresholdHigh = store.socThresholdHigh]
                   = store ]_vars

\* C13 witness: a committed Forest after a threshold change, a department
\* filter, a depth change, a selection and a layout that wrote its colours.
C13_Witness ==
    /\ Ready /\ HasRoot(store.parseResult)
    /\ store.socThresholdLow # 3
    /\ store.selectedDepartment # Null
    /\ store.maxVisibleDepth # 20
    /\ store.selectedNodeId # Null
    /\ store.currentView = "circle"
    /\ \E id \in DOMAIN StoredNodes : "_displayColor" \in DOMAIN StoredNodes[id]

\* C14: for an input with an orphan and at least one row without a
\* manager, processData returns a non-null root together with at least one
\* warning in its errors list.
C14_OrphanIsWarned ==
    (Done /\ Accepted /\ Orphans # {}
          /\ \E id \in ValidIds : ManagerOf(id) = Null)
        => /\ result.root # Null
           /\ Len(result.errors) > 0

Fitted == camera.last.op = "fitToBounds"

\* The screen coordinate of world coordinate w under transform t on one axis.
Screen(w, k, t) == Add(Mul(w, k), t)

InZoomRange(cam) ==
    /\ Leq(cam.minZoom, cam.transform.k)
    /\ Leq(cam.transform.k, cam.maxZoom)

\* C16: fitToBounds(rect, padding) on a W x H viewport, for a rectangle with
\* positive width and height, sets the scale to
\* min((W - 2 padding) / width, (H - 2 padding) / height) clamped into
\* [minZoom, maxZoom] and the translation so that the centre of the rectangle
\* is shown at (W/2, H/2); for the square of side 200 around the origin,
\* padding 20 and 800 x 600 the scale is at most min(780/200, 560/200).
C16_FitCentresRect ==
    (/\ Fitted
     /\ Less(Num(0), camera.last.bounds.width)
     /\ Less(Num(0), camera.last.bounds.height))
    => LET b == camera.last.bounds
           p == camera.last.padding
           t == camera.transform
           kx == Div(Num(camera.W - 2 * p), b.width)
           ky == Div(Num(camera.H - 2 * p), b.height)
           k0 == IF Less(ky, kx) THEN ky ELSE kx
           k == IF Less(k0, camera.minZoom) THEN camera.minZoom
                ELSE IF Less(camera.maxZoom, k0) THEN camera.maxZoom
                ELSE k0
           two == Num(2)
       IN /\ t.k = k
          /\ Screen(Add(b.x, Div(b.width, two)), t.k, t.x) = Frac(camera.W, 2)
          /\ Screen(Add(b.y, Div(b.height, two)), t.k, t.y) = Frac(camera.H, 2)
          /\ (/\ b = Rect(Num(-100), Num(-100), Num(200), Num(200))
              /\ p = 20 /\ camera.W = 800 /\ camera.H = 600)
             => /\ Leq(t.k, Frac(780, 200))
                /\ Leq(t.k, Frac(560, 200))

\* The square of the example has been fitted on 800 x 600 with padding 20.
C16_Witness ==
    /\ Fitted
    /\ camera.last.bounds = Rect(Num(-100), Num(-100), Num(200), Num(200))
    /\ camera.last.padding = 20
    /\ camera.W = 800 /\ camera.H = 600
    /\ camera.transform = [x |-> Num(400), y |-> Num(300), k |-> Frac(14, 5)]

\* C17: after any sequence of camera operations the scale k satisfies
\* minZoom <= k <= maxZoom.
C17_ScaleWithinZoomRange == InZoomRange(camera)

FiniteTransform(t) == IsFinite(t.x) /\ IsFinite(t.y) /\ IsFinite(t.k)

\* C19: a fitToBounds with a rectangle of width 0 or height 0 either leaves
\* the transform as it was or sets a finite transform whose scale is within
\* [minZoom, maxZoom].
C19_DegenerateFitIsFinite ==
    [][ (/\ camera' # camera
         /\ camera'.last.op = "fitToBounds"
         /\ \/ camera'.last.bounds.width = Num(0)
            \/ camera'.last.bounds.height = Num(0))
        => \/ camera'.transform = camera.transform
           \/ FiniteTransform(camera'.transform) /\ InZoomRange(camera') ]_vars

\* C20: for every drawn node, of the primary tree or of a secondary tree,
\* and every camera scale in [minZoom, maxZoom], the hit test at the screen
\* point where the centre of the node is drawn resolves to that node.
C20_CentreHitsNode ==
    InZoomRange(camera)
    => \A isSec \in BOOLEAN :
         LET h == IF isSec THEN Secondary ELSE Primary
         IN \A n \in DrawnNodes(h, store.maxVisibleDepth) :
              hitTest(camera, Primary,
                      ToScreen(camera, DrawnAt(h, n, Radius, isSec))) = n

\* C18: in the tree view every change of the transform passes through
\* constrainTransform, so that after the mount effects and any sequence of
\* zooms, drags, resets and selections the transform is one constrainTransform
\* leaves as it is, and the safety margin of the content stays visible: the
\* right and bottom edges of the bounding rectangle are at least MARGIN
\* pixels inside the viewport, and so are the left and top edges.
C18_TransformIsConstrained ==
    chart.centred
    => LET b == treeBounds(Tree)
           t == chart.transform
       IN /\ constrainTransform(t, b, chart.W, chart.H) = t
          /\ Leq(Num(MARGIN), Add(Mul(Num(b.maxX), t.k), t.x))
          /\ Leq(Add(Mul(Num(b.minX), t.k), t.x), Num(chart.W - MARGIN))
          /\ Leq(Num(MARGIN), Add(Mul(Num(b.maxY), t.k), t.y))
          /\ Leq(Add(Mul(Num(b.minY), t.k), t.y), Num(chart.H - MARGIN))

\* C21: both layouts position every node of the forest, the subtrees of the
\* secondary roots as well as the primary tree, and the secondary trees lie
\* apart from the primary tree: in the circle view every primary node is
\* within RADIUS of the origin and every secondary node is drawn right of it.
C21_EveryNodeIsLaidOut ==
    HasRoot(store.parseResult)
    => LET all == DOMAIN store.parseResult.flatNodes
           R == Radius
       IN /\ all \subseteq LaidOut(Tree)
          /\ all \subseteq LaidOut(Primary) \cup LaidOut(Secondary)
          /\ \A n \in LaidOut(Primary) :
                Leq(distSq(Primary, n, R, Num(0), Num(0)), Mul(R, R))
          /\ \A n \in LaidOut(Secondary) :
                Less(R, DrawnAt(Secondary, n, R, TRUE).x)

Hovering == "isNull" \notin DOMAIN hover

\* C22: a pointer move whose hit test resolves to the node already hovered
\* updates no hover state, wherever in the hit area of the node it lands.
C22_SameNodeNoUpdate ==
    [][ (/\ Hovering
         /\ pointer' # NoPointer
         /\ camera' = camera /\ store' = store
         /\ hitTest(camera, Primary, pointer') = hover.id)
        => hover' = hover ]_vars

\* C23: a pointer down selects exactly the node the hit test resolves at the
\* place of the pointer under the transform then in force, and selects
\* nothing where the hit test resolves to nothing.
C23_DownSelectsWhatIsHit ==
    [][ store'.selectedNodeId # store.selectedNodeId
        => /\ pointer # NoPointer
           /\ store'.selectedNodeId = hitTest(camera, Primary, pointer) ]_vars

\* The nodes the circle view draws.
Drawn ==
    DrawnNodes(Primary, store.maxVisibleDepth)
    \cup DrawnNodes(Secondary, store.maxVisibleDepth)

\* C29: in the circle view a node that is not drawn, its depth being above
\* maxVisibleDepth, is never the hovered node nor the selected node.
C29_HiddenNodeIsNotHit ==
    /\ Hovering => hover.id \in Drawn
    /\ store.selectedNodeId # Null => store.selectedNodeId \in Drawn

\* C30: once the disc of radius R has been fitted, the origin of the layout
\* is rendered at the centre of the viewport and the whole disc lies inside
\* the viewport, under the mapping the renderer uses.
C30_FittedDiscIsCentred ==
    Fitted
    => LET R == Radius
           o == ToScreen(camera, [x |-> Num(0), y |-> Num(0)])
           lo == ToScreen(camera, [x |-> Neg(R), y |-> Neg(R)])
           hi == ToScreen(camera, [x |-> R, y |-> R])
       IN /\ o = [x |-> Frac(camera.W, 2), y |-> Frac(camera.H, 2)]
          /\ Leq(Num(0), lo.x) /\ Leq(Num(0), lo.y)
          /\ Leq(hi.x, Num(camera.W)) /\ Leq(hi.y, Num(camera.H))

\* The siblings of a laid-out tree, as pairs of distinct children of one node.
SiblingPairs(h) ==
    {<<a, b>> \in LaidOut(h) \X LaidOut(h) :
        a # b /\ a # h.root /\ b # h.root /\ ParentIn(h, a) = ParentIn(h, b)}

\* The angle of a direction of the radial layout, in quarter turns.
QuarterTurns(dir) ==
    CASE dir = <<1, 0>> -> 1 [] dir = <<0, 1>> -> 2 [] dir = <<-1, 0>> -> 3

DeptBefore(a, b) ==
    LET nodes == store.parseResult.flatNodes
    IN DeptRank(Dept(nodes, a)) < DeptRank(Dept(nodes, b))

\* C24: in both layouts siblings are placed in ascending order of their
\* department names: of two siblings the one whose department sorts first is
\* left of the other in the tree view and at the smaller angle in the
\* circle view.
C24_SiblingsInDepartmentOrder ==
    HasRoot(store.parseResult) =>
        /\ \A s \in SiblingPairs(Tree) :
              DeptBefore(s[1], s[2]) => TreeX(Tree, s[1]) < TreeX(Tree, s[2])
        /\ \A s \in SiblingPairs(Primary) :
              DeptBefore(s[1], s[2])
                 => QuarterTurns(DirIn(Primary, s[1]))
                       < QuarterTurns(DirIn(Primary, s[2]))

SubtreeSize(h, id) == Len(eachNode(h.nodes, <<id>>, <<>>))

\* C25: in the radial layout, of two siblings of the same department the one
\* with more descendants is placed first, at the smaller angle.
C25_TiesByDescendingSubtreeSize ==
    HasRoot(store.parseResult) =>
        \A s \in SiblingPairs(Primary) :
            LET nodes == store.parseResult.flatNodes
            IN (/\ Dept(nodes, s[1]) = Dept(nodes, s[2])
                /\ SubtreeSize(Primary, s[1]) > SubtreeSize(Primary, s[2]))
                  => QuarterTurns(DirIn(Primary, s[1]))
                        < QuarterTurns(DirIn(Primary, s[2]))
\* C26: the selected node id is null or the id of a node of the current
\* parse result, whatever was clicked or uploaded.
C26_SelectionIsANode ==
    store.selectedNodeId # Null
       => /\ HasRoot(store.parseResult)
          /\ store.selectedNodeId \in DOMAIN store.parseResult.flatNodes
\* C27: a wizard that shows VALIDATING eventually shows another step,
\* whatever the parse of the file gives.
C27_ValidatingEnds ==
    (wizard.step = "VALIDATING") ~> (wizard.step # "VALIDATING")
\* C28: once every processFile call has completed, the store shows the
\* outcome of the file chosen last, the one in rawFile, and is not loading,
\* whichever parse completed last.
C28_LastChosenFileWins ==
    (upload # <<>> /\ \A i \in DOMAIN upload : upload[i].done)
       => /\ ~store.isLoading
          /\ LET alone == Settle(InitialStore, store.rawFile)
             IN /\ store.error = alone.error
                /\ alone.error = Null => store.parseResult = alone.parseResult
====
